---- MODULE Spec2Model ----
(***************************************************************************)
(* State-machine model of autoptsserver.py: the supervisor loop of the     *)
(* __main__ block, multi_main, the Server worker threads, the SuperGuard   *)
(* watchdog thread and recover_pts.                                        *)
(*                                                                         *)
(* Threads are interleaved one statement (or one commuting group of        *)
(* statements) at a time; sleep() calls are points where the other threads *)
(* run.  Time enters the program only through the comparison               *)
(* `time.time() - srv.last_start() > self.timeout`; per worker the model   *)
(* keeps the truth value of that comparison (stale), set by the passage of *)
(* time (Elapse) and reset when the engine stamps last_start_time.         *)
(***************************************************************************)
EXTENDS Integers, Sequences, FiniteSets, TLC

\* ------------------------------------------------------------------ bounds
\* Number of Server objects the main thread may create over the whole run.
MaxServers == 2
\* Number of events the environment contributes over the whole run: exceptions
\* that leave Server.main, request_recovery RPCs of the clients and idle
\* periods longer than the timeout.
MaxEvents == 2
\* Number of Ctrl-C interrupts delivered to the main thread.
MaxInterrupts == 1

\* ----------------------------------------------------- configurations (argv)
\* -S/--srv_port: one port (single-port mode) or several (multi-port mode).
LongestPorts == <<50000, 50001>>
PortLists == {SubSeq(LongestPorts, 1, 1), LongestPorts}
\* --superguard, already multiplied by 60; 0 disables the watchdog.
Timeouts == {0, 1}
\* --ykush: hub ports of the PTS dongle (strings, as argparse delivers them).
YkushLists == {<< >>, <<"1", "2">>}
\* The command lines explored: every combination without --ykush, and
\* --ykush together with --recovery and without --superguard.
Configs ==
    {c \in [srv_port : PortLists, recovery : BOOLEAN, timeout : Timeouts,
            ykush : YkushLists] :
        c.ykush = << >> \/ (c.recovery /\ c.timeout = 0)}

\* Server objects are numbered in the order of their creation.
Servers == 1..MaxServers

\* None, as the value of a server reference.
NoServer == 0

\* The arguments of a Server that has not been created.
NoArgs == [fleet |-> 0, srv_port |-> 0]

VARIABLES
    srv_port,        \* _args.srv_port (a sequence; length 1 is the int case)
    recovery,        \* _args.recovery
    timeout,         \* superguard.timeout
    ykush,           \* _args.ykush
    sup_pc,          \* position of the main thread
    sup_i,           \* index of the for loop the main thread is in
    fleet,           \* number of fleets started so far
    exceptions,      \* the local `exceptions`, as the list of drained messages
    exit_code,       \* << >> while the process runs, <<code>> once it ended
    queue,           \* the Queue shared by all threads
    st,              \* per Server: how far Server.main got / how it ended
    shut_req,        \* per Server: a server.shutdown thread has been started
    stale,           \* per Server: now - pts.last_start_time > timeout
    servers,         \* superguard.servers
    was_timeout,     \* superguard.was_timeout
    wd_pc,           \* position of the SuperGuard thread
    wd_i,            \* index of the for loop the SuperGuard thread is in
    wd_srv,          \* the local srv of the SuperGuard thread inside terminate
    idle_num,        \* the local idle_num of SuperGuard.run
    rec_log,         \* effects of the current (or last) recover_pts call
    events,          \* events the environment has contributed so far
    interrupts,      \* Ctrl-C interrupts delivered so far
    srv_args         \* per Server: the fleet that created it and the port it serves

cfg_vars == <<srv_port, recovery, timeout, ykush>>
sup_vars == <<sup_pc, sup_i, fleet, exceptions, exit_code>>
srv_vars == <<st, shut_req, stale>>
wd_vars == <<wd_pc, wd_i, wd_srv, idle_num>>
vars == <<srv_port, recovery, timeout, ykush, sup_pc, sup_i, fleet, exceptions,
          exit_code, queue, st, shut_req, stale, servers, was_timeout,
          wd_pc, wd_i, wd_srv, idle_num, rec_log, events, interrupts,
          srv_args>>

\* ----------------------------------------------------------------- helpers
\* isinstance(_args.srv_port, int): check_args unwraps a one-element list.
SinglePort == Len(srv_port) = 1

\* The Server that fleet f creates for the i-th port, the fleet a Server
\* belongs to, and its port.
SrvId(f, i) == (f - 1) * Len(srv_port) + i
FleetOf(s) == ((s - 1) \div Len(srv_port)) + 1
PortOf(s) == srv_port[((s - 1) % Len(srv_port)) + 1]

\* Server.main has passed `self.pts = PyPTSWithXmlRpcCallback()`.
has_pts(s) == st[s] \in {"ptsup", "serving", "stopped", "crashed_pts", "crashed_srv"}

\* Server.main has passed `self.server = SimpleXMLRPCServer(...)`.
has_server(s) == st[s] \in {"serving", "stopped", "crashed_srv"}

\* Thread.is_alive() of a worker thread.
is_alive(s) == st[s] \in {"starting", "ptsup", "serving"}

\* The main thread has not left the program; daemon threads run only then.
Running == exit_code = << >>

\* `time.time() - srv.last_start() > self.timeout`.  Server.last_start
\* returns pts.last_start_time when self.pts is set; otherwise it returns
\* time.time(), read after the minuend, so that the difference is at most 0.
IsIdle(s) == IF has_pts(s) THEN stale[s] ELSE 0 > timeout

\* The messages put on the queue.  MsgCrash stands for the text Server.run
\* builds from the port and the traceback.
MsgTimeout == "Superguard timeout"
MsgSupervisor == ""
MsgRecovery == "Recovery request"
MsgCrash == "from Server process"
MsgDown == "Server is down"

\* Server.terminate, called from the thread of the caller in one piece.
terminate(s, msg) ==
    /\ shut_req' = [shut_req EXCEPT ![s] = @ \/ has_server(s)]
    /\ queue' = Append(queue, [msg |-> msg, srv |-> s])

\* The process ends with status `code`, the main thread at `pc`: its threads
\* and objects are gone.  n is the number of interrupts delivered by then.
ProcessEnds(pc, code, n) ==
    /\ sup_pc' = pc
    /\ exit_code' = code
    /\ interrupts' = n
    /\ sup_i' = 0 /\ exceptions' = << >> /\ queue' = << >>
    /\ st' = [s \in Servers |-> "none"]
    /\ shut_req' = [s \in Servers |-> FALSE]
    /\ stale' = [s \in Servers |-> FALSE]
    /\ servers' = << >> /\ was_timeout' = FALSE
    /\ wd_pc' = "off" /\ wd_i' = 1 /\ wd_srv' = NoServer /\ idle_num' = 0
    /\ rec_log' = << >> /\ events' = 0
    /\ srv_args' = [s \in Servers |-> NoArgs]
    /\ UNCHANGED <<cfg_vars, fleet>>

\* -------------------------------------------------------------------- Init
\* A start in which superguard.start() is called whatever the timeout.
Init_watchdog_started ==
    /\ \E c \in Configs :
          /\ srv_port = c.srv_port /\ recovery = c.recovery
          /\ timeout = c.timeout /\ ykush = c.ykush
    /\ sup_pc = "top"
    /\ sup_i = 0
    /\ fleet = 0
    /\ exceptions = << >>
    /\ exit_code = << >>
    /\ queue = << >>
    /\ st = [s \in Servers |-> "none"]
    /\ shut_req = [s \in Servers |-> FALSE]
    /\ stale = [s \in Servers |-> FALSE]
    /\ servers = << >>
    /\ was_timeout = FALSE
    /\ wd_pc = "count"
    /\ wd_i = 1
    /\ wd_srv = NoServer
    /\ idle_num = 0
    /\ rec_log = << >>
    /\ events = 0
    /\ interrupts = 0
    /\ srv_args = [s \in Servers |-> NoArgs]

\* The state after the construction of `superguard`; the thread is started
\* only `if _args.superguard`.
Init ==
    /\ \E c \in Configs :
          /\ srv_port = c.srv_port /\ recovery = c.recovery
          /\ timeout = c.timeout /\ ykush = c.ykush
    /\ sup_pc = "top"
    /\ sup_i = 0
    /\ fleet = 0
    /\ exceptions = << >>
    /\ exit_code = << >>
    /\ queue = << >>
    /\ st = [s \in Servers |-> "none"]
    /\ shut_req = [s \in Servers |-> FALSE]
    /\ stale = [s \in Servers |-> FALSE]
    /\ servers = << >>
    /\ was_timeout = FALSE
    /\ wd_pc = IF timeout # 0 THEN "count" ELSE "off"
    /\ wd_i = 1
    /\ wd_srv = NoServer
    /\ idle_num = 0
    /\ rec_log = << >>
    /\ events = 0
    /\ interrupts = 0
    /\ srv_args = [s \in Servers |-> NoArgs]

\* ------------------------------------------------- main thread: single port
\* `server = Server(_queue=queue); superguard.add_server(server)` and the call
\* of server.main in the main thread.
SingleStart ==
    /\ Running /\ sup_pc = "top" /\ SinglePort /\ SrvId(fleet + 1, 1) <= MaxServers
    /\ fleet' = fleet + 1
    /\ st' = [st EXCEPT ![SrvId(fleet + 1, 1)] = "starting"]
    /\ servers' = Append(servers, SrvId(fleet + 1, 1))
    /\ srv_args' = [srv_args EXCEPT ![SrvId(fleet + 1, 1)] =
                        [fleet |-> fleet + 1, srv_port |-> srv_port[1]]]
    /\ sup_pc' = "single_main"
    /\ UNCHANGED <<cfg_vars, sup_i, exceptions, exit_code, queue, shut_req,
                   stale, was_timeout, wd_vars, rec_log, events, interrupts>>

\* ------------------------------------------------- main thread: multi_main
\* `try:` with a port list: enter multi_main.
MultiEnter ==
    /\ Running /\ sup_pc = "top" /\ ~SinglePort /\ SrvId(fleet + 1, 1) <= MaxServers
    /\ fleet' = fleet + 1
    /\ sup_pc' = "m_start"
    /\ sup_i' = 1
    /\ UNCHANGED <<cfg_vars, srv_args, exceptions, exit_code, queue, srv_vars, servers,
                   was_timeout, wd_vars, rec_log, events, interrupts>>

\* A start loop that gives every Server the first port of the list.
MultiStartOne_first_port ==
    /\ Running /\ sup_pc = "m_start" /\ SrvId(fleet, sup_i) <= MaxServers
    /\ st' = [st EXCEPT ![SrvId(fleet, sup_i)] = "starting"]
    /\ servers' = Append(servers, SrvId(fleet, sup_i))
    /\ srv_args' = [srv_args EXCEPT ![SrvId(fleet, sup_i)] =
                        [fleet |-> fleet, srv_port |-> srv_port[1]]]
    /\ IF sup_i < Len(srv_port)
       THEN sup_i' = sup_i + 1 /\ sup_pc' = "m_start"
       ELSE sup_i' = 0 /\ sup_pc' = "m_wait"
    /\ UNCHANGED <<cfg_vars, fleet, exceptions, exit_code, queue, shut_req,
                   stale, was_timeout, wd_vars, rec_log, events, interrupts>>

\* One round of the start loop: Server(...) with the port in its arguments,
\* srv.start(), add_server(srv), sleep(5).
MultiStartOne ==
    /\ Running /\ sup_pc = "m_start" /\ SrvId(fleet, sup_i) <= MaxServers
    /\ st' = [st EXCEPT ![SrvId(fleet, sup_i)] = "starting"]
    /\ servers' = Append(servers, SrvId(fleet, sup_i))
    /\ srv_args' = [srv_args EXCEPT ![SrvId(fleet, sup_i)] =
                        [fleet |-> fleet, srv_port |-> srv_port[sup_i]]]
    /\ IF sup_i < Len(srv_port)
       THEN sup_i' = sup_i + 1 /\ sup_pc' = "m_start"
       ELSE sup_i' = 0 /\ sup_pc' = "m_wait"
    /\ UNCHANGED <<cfg_vars, fleet, exceptions, exit_code, queue, shut_req,
                   stale, was_timeout, wd_vars, rec_log, events, interrupts>>

\* A liveness loop that finds every server alive.
RECURSIVE DownEntries_none(_)
DownEntries_none(i) == IF i > Len(srv_port) THEN << >> ELSE DownEntries_none(i + 1)

\* The servers of the current fleet found dead by one pass of the liveness
\* loop, from index i on, each as a 'Server is down' entry.
RECURSIVE DownEntries(_)
DownEntries(i) ==
    IF i > Len(srv_port) THEN << >>
    ELSE (IF is_alive(SrvId(fleet, i)) THEN << >>
          ELSE <<[msg |-> MsgDown, srv |-> SrvId(fleet, i)]>>) \o DownEntries(i + 1)

\* One round of `while _queue.empty():` of multi_main: the liveness loop over
\* the fleet and sleep(2), or the end of the loop.
MultiWait ==
    /\ Running /\ sup_pc = "m_wait"
    /\ IF queue = << >>
       THEN queue' = DownEntries(1) /\ UNCHANGED <<sup_pc, sup_i>>
       ELSE sup_pc' = "m_term" /\ sup_i' = 1 /\ UNCHANGED queue
    /\ UNCHANGED <<cfg_vars, srv_args, fleet, exceptions, exit_code, srv_vars, servers,
                   was_timeout, wd_vars, rec_log, events, interrupts>>

\* One round of `for s in servers: s.terminate('')`; after the last one
\* multi_main returns and the main thread sets `exceptions = ''`.
MultiTerm ==
    /\ Running /\ sup_pc = "m_term"
    /\ terminate(SrvId(fleet, sup_i), MsgSupervisor)
    /\ IF sup_i < Len(srv_port)
       THEN sup_i' = sup_i + 1 /\ sup_pc' = "m_term" /\ UNCHANGED exceptions
       ELSE sup_i' = 0 /\ sup_pc' = "drain" /\ exceptions' = << >>
    /\ UNCHANGED <<cfg_vars, srv_args, fleet, exit_code, st, stale, servers, was_timeout,
                   wd_vars, rec_log, events, interrupts>>

\* ------------------------------------------------------------- Server.main
\* The thread that executes Server.main of s: the main thread in single-port
\* mode (while it is inside server.main), the worker's own thread otherwise.
Runs(s) == Running /\ (SinglePort => sup_pc = "single_main" /\ s = SrvId(fleet, 1))

\* `self.pts = PyPTSWithXmlRpcCallback()`; the engine stamps its start time.
CreatePts(s) ==
    /\ Runs(s) /\ st[s] = "starting"
    /\ st' = [st EXCEPT ![s] = "ptsup"]
    /\ stale' = [stale EXCEPT ![s] = FALSE]
    /\ UNCHANGED <<cfg_vars, srv_args, sup_vars, queue, shut_req, servers, was_timeout,
                   wd_vars, rec_log, events, interrupts>>

\* `self.server = SimpleXMLRPCServer(...)` up to the entry of serve_forever.
CreateServer(s) ==
    /\ Runs(s) /\ st[s] = "ptsup"
    /\ st' = [st EXCEPT ![s] = "serving"]
    /\ UNCHANGED <<cfg_vars, srv_args, sup_vars, queue, shut_req, stale,
                   servers, was_timeout, wd_vars, rec_log, events, interrupts>>

\* How Server.main ends when an exception leaves it in state x.
Crashed(x) == CASE x = "starting" -> "crashed_none"
                [] x = "ptsup" -> "crashed_pts"
                [] OTHER -> "crashed_srv"

\* An exception leaves Server.main.  In a worker thread Server.run catches it
\* when it is an Exception and calls self.terminate(...); any other
\* BaseException (reported = FALSE) ends the thread without a word.  In
\* single-port mode it reaches the `except BaseException` clause of the main
\* thread either way.
Fail(s) ==
    /\ Runs(s) /\ is_alive(s) /\ events < MaxEvents
    /\ events' = events + 1
    /\ st' = [st EXCEPT ![s] = Crashed(st[s])]
    /\ IF SinglePort
       THEN /\ sup_pc' = "decide"
            /\ UNCHANGED <<queue, shut_req>>
       ELSE /\ \E reported \in BOOLEAN :
                 IF reported THEN terminate(s, MsgCrash)
                 ELSE UNCHANGED <<queue, shut_req>>
            /\ UNCHANGED sup_pc
    /\ UNCHANGED <<cfg_vars, srv_args, sup_i, fleet, exceptions, exit_code, stale, servers,
                   was_timeout, wd_vars, rec_log, interrupts>>

\* The engine begins new work for a client and stamps last_start_time.
Refresh(s) ==
    /\ Runs(s) /\ st[s] = "serving" /\ stale[s]
    /\ stale' = [stale EXCEPT ![s] = FALSE]
    /\ UNCHANGED <<cfg_vars, srv_args, sup_vars, queue, st, shut_req, servers,
                   was_timeout, wd_vars, rec_log, events, interrupts>>

\* Server.request_recovery, served inside serve_forever.
request_recovery(s) ==
    /\ Runs(s) /\ st[s] = "serving" /\ events < MaxEvents
    /\ terminate(s, MsgRecovery)
    /\ events' = events + 1
    /\ UNCHANGED <<cfg_vars, srv_args, sup_vars, st, stale, servers, was_timeout,
                   wd_vars, rec_log, interrupts>>

\* serve_forever sees the shutdown request; server_close(); return 0.  In
\* single-port mode the main thread goes on with `exceptions = ''`.
ServeExit(s) ==
    /\ Runs(s) /\ st[s] = "serving" /\ shut_req[s]
    /\ st' = [st EXCEPT ![s] = "stopped"]
    /\ IF SinglePort
       THEN sup_pc' = "drain" /\ exceptions' = << >>
       ELSE UNCHANGED <<sup_pc, exceptions>>
    /\ UNCHANGED <<cfg_vars, srv_args, sup_i, fleet, exit_code, queue, shut_req,
                   stale, servers, was_timeout, wd_vars, rec_log,
                   events, interrupts>>

\* ------------------------------------------- main thread: drain and decide
\* One round of `while not queue.empty(): exceptions += str(get_nowait())`.
DrainGet ==
    /\ Running /\ sup_pc = "drain" /\ queue # << >>
    /\ exceptions' = Append(exceptions, Head(queue).msg)
    /\ queue' = Tail(queue)
    /\ UNCHANGED <<cfg_vars, srv_args, sup_pc, sup_i, fleet, exit_code, srv_vars, servers,
                   was_timeout, wd_vars, rec_log, events, interrupts>>

\* The queue is empty: `raise Exception(exceptions)` or `break`, which ends
\* the script with status 0.  The raised exception carries the text into the
\* `except BaseException` clause.
DrainEnd ==
    /\ Running /\ sup_pc = "drain" /\ queue = << >>
    /\ IF exceptions # << >>
       THEN /\ sup_pc' = "decide"
            /\ UNCHANGED <<cfg_vars, srv_args, sup_i, fleet, exceptions, exit_code, queue,
                           srv_vars, servers, was_timeout, wd_vars, rec_log, events, interrupts>>
       ELSE ProcessEnds("exited", <<0>>, interrupts)

\* `if _args.recovery or superguard.was_timeout`.
ShouldRecover == recovery \/ was_timeout

\* The `except BaseException` clause up to its branch; sys.exit(16).  The
\* exception is logged and not looked at again.
Decide ==
    /\ Running /\ sup_pc = "decide"
    /\ IF ShouldRecover
       THEN /\ sup_pc' = "clear_servers"
            /\ exceptions' = << >>
            /\ UNCHANGED <<cfg_vars, srv_args, sup_i, fleet, exit_code, queue,
                           srv_vars, servers, was_timeout, wd_vars, rec_log, events, interrupts>>
       ELSE ProcessEnds("exited", <<16>>, interrupts)

\* SuperGuard.clear, first statement: self.servers.clear().
ClearServers ==
    /\ Running /\ sup_pc = "clear_servers"
    /\ servers' = << >>
    /\ sup_pc' = "clear_flag"
    /\ UNCHANGED <<cfg_vars, srv_args, sup_i, fleet, exceptions, exit_code, queue, srv_vars,
                   was_timeout, wd_vars, rec_log, events, interrupts>>

\* SuperGuard.clear, second statement: self.was_timeout = False; then
\* recover_pts is entered.
ClearFlag ==
    /\ Running /\ sup_pc = "clear_flag"
    /\ was_timeout' = FALSE
    /\ sup_pc' = "rec_kill_pts"
    /\ rec_log' = << >>
    /\ UNCHANGED <<cfg_vars, srv_args, sup_i, fleet, exceptions, exit_code, queue, srv_vars,
                   servers, wd_vars, events, interrupts>>

\* ------------------------------------------------------------- recover_pts
\* What a step of recover_pts leaves alone.
RecFrame == UNCHANGED <<cfg_vars, srv_args, fleet, exceptions, exit_code, queue, srv_vars,
                        servers, was_timeout, wd_vars, events, interrupts>>

\* An exception leaves recover_pts inside the `except BaseException` clause:
\* nothing catches it, the interpreter ends the process with status 1.
RecRaises == ProcessEnds("uncaught_exc", <<1>>, interrupts)

\* kill_all_processes(name).  ps.Terminate() may raise for any process; the
\* except clause logs it and the loop goes on, so both outcomes end alike.
kill_all_processes(name, next) ==
    /\ rec_log' = Append(rec_log, <<"kill", name>>)
    /\ sup_pc' = next
    /\ UNCHANGED sup_i
    /\ RecFrame

\* A first step of recover_pts after which the main thread handles the
\* failure once more.
RecKillPts_redecide ==
    /\ Running /\ sup_pc = "rec_kill_pts"
    /\ kill_all_processes("PTS.exe", "decide")

RecKillPts ==
    /\ Running /\ sup_pc = "rec_kill_pts"
    /\ kill_all_processes("PTS.exe", "rec_kill_fts")

RecKillFts ==
    /\ Running /\ sup_pc = "rec_kill_fts"
    /\ kill_all_processes("Fts.exe", "rec_delete")

\* delete_workspaces() followed by `if ykush_ports:`.  os.scandir and
\* os.remove are not guarded: when one raises (ok = FALSE) the exception
\* leaves recover_pts.
delete_workspaces(ok) ==
    IF ok
    THEN /\ rec_log' = Append(rec_log, <<"delete", "workspaces">>)
         /\ sup_pc' = IF ykush # << >> THEN "rec_off" ELSE "top"
         /\ sup_i' = IF ykush # << >> THEN 1 ELSE 0
         /\ RecFrame
    ELSE RecRaises

RecDelete ==
    /\ Running /\ sup_pc = "rec_delete"
    /\ \E ok \in BOOLEAN : delete_workspaces(ok)

\* A power loop that leaves after its first port.
PowerLoop_first_only(ok, flag, after) ==
    IF ok
    THEN /\ rec_log' = Append(rec_log, <<flag, ykush[sup_i]>>)
         /\ sup_i' = 0 /\ sup_pc' = after
         /\ RecFrame
    ELSE RecRaises

\* One round of a `for port in ykush_ports: subprocess.Popen([ykushcmd, flag,
\* str(port)])` loop of turn_on_dongle; Popen raises when the command cannot
\* be started (ok = FALSE).
PowerLoop(ok, flag, after) ==
    IF ok
    THEN /\ rec_log' = Append(rec_log, <<flag, ykush[sup_i]>>)
         /\ IF sup_i < Len(ykush)
            THEN sup_i' = sup_i + 1 /\ UNCHANGED sup_pc
            ELSE sup_i' = 0 /\ sup_pc' = after
         /\ RecFrame
    ELSE RecRaises

\* The first loop: `ykushcmd -d port`.
RecPowerOff ==
    /\ Running /\ sup_pc = "rec_off"
    /\ \E ok \in BOOLEAN : PowerLoop(ok, "off", "rec_sleep5")

\* time.sleep(5) between the two loops.
RecSleep5 ==
    /\ Running /\ sup_pc = "rec_sleep5"
    /\ rec_log' = Append(rec_log, <<"sleep", "5">>)
    /\ sup_pc' = "rec_on"
    /\ sup_i' = 1
    /\ RecFrame

\* The second loop: `ykushcmd -u port`.
RecPowerOn ==
    /\ Running /\ sup_pc = "rec_on"
    /\ \E ok \in BOOLEAN : PowerLoop(ok, "on", "rec_sleep2")

\* time.sleep(2); turn_on_dongle and recover_pts return, the `while True`
\* loop starts over.
RecSleep2 ==
    /\ Running /\ sup_pc = "rec_sleep2"
    /\ rec_log' = Append(rec_log, <<"sleep", "2">>)
    /\ sup_pc' = "top"
    /\ UNCHANGED sup_i
    /\ RecFrame

\* -------------------------------------------------------- SuperGuard.run
\* `if idle_num == len(self.servers) and idle_num != 0:`
AllIdle == idle_num = Len(servers) /\ idle_num # 0

\* One round of `for srv in self.servers:` of the counting loop; the list
\* iterator compares its index with the current length of the list.  When the
\* loop is exhausted the test of the fire follows; when it fails: sleep(5),
\* `idle_num = 0` and the next pass.
WdCount ==
    /\ Running /\ wd_pc = "count"
    /\ IF wd_i <= Len(servers)
       THEN /\ idle_num' = IF IsIdle(servers[wd_i]) THEN idle_num + 1 ELSE idle_num
            /\ wd_i' = wd_i + 1
            /\ UNCHANGED wd_pc
       ELSE /\ wd_pc' = IF AllIdle THEN "term" ELSE "count"
            /\ wd_i' = 1
            /\ idle_num' = 0
    /\ UNCHANGED <<cfg_vars, srv_args, sup_vars, queue, srv_vars, servers, was_timeout,
                   wd_srv, rec_log, events, interrupts>>

\* `for srv in self.servers: srv.terminate('Superguard timeout')`, up to the
\* start of the shutdown thread inside terminate.
WdTermSpawn ==
    /\ Running /\ wd_pc = "term" /\ wd_i <= Len(servers)
    /\ wd_srv' = servers[wd_i]
    /\ shut_req' = [shut_req EXCEPT ![servers[wd_i]] = @ \/ has_server(servers[wd_i])]
    /\ wd_pc' = "term_put"
    /\ UNCHANGED <<cfg_vars, srv_args, sup_vars, queue, st, stale, servers,
                   was_timeout, wd_i, idle_num, rec_log, events,
                   interrupts>>

\* The rest of that terminate call: `self.queue.put(Exception(msg))`.
WdTermPut ==
    /\ Running /\ wd_pc = "term_put"
    /\ queue' = Append(queue, [msg |-> MsgTimeout, srv |-> wd_srv])
    /\ wd_srv' = NoServer
    /\ wd_i' = wd_i + 1
    /\ wd_pc' = "term"
    /\ UNCHANGED <<cfg_vars, srv_args, sup_vars, st, shut_req, stale, servers, was_timeout,
                   idle_num, rec_log, events, interrupts>>

\* The loop is exhausted: `self.was_timeout = True`.
WdSetFlag ==
    /\ Running /\ wd_pc = "term" /\ wd_i > Len(servers)
    /\ was_timeout' = TRUE
    /\ wd_pc' = "clear"
    /\ wd_i' = 1
    /\ UNCHANGED <<cfg_vars, srv_args, sup_vars, queue, srv_vars, servers, wd_srv, idle_num,
                   rec_log, events, interrupts>>

\* `self.servers.clear()`, sleep(5), `idle_num = 0`, next round.
WdClear ==
    /\ Running /\ wd_pc = "clear"
    /\ servers' = << >>
    /\ wd_pc' = "count"
    /\ UNCHANGED <<cfg_vars, srv_args, sup_vars, queue, srv_vars, was_timeout, wd_i, wd_srv,
                   idle_num, rec_log, events, interrupts>>

\* --------------------------------------------------------------- Ctrl-C
\* Positions of the main thread inside the `try:` block.
InTry == {"top", "single_main", "m_start", "m_wait", "m_term", "drain"}

\* Positions of the main thread inside the `except BaseException` clause.
InHandler == {"decide", "clear_servers", "clear_flag", "rec_kill_pts",
              "rec_kill_fts", "rec_delete", "rec_off", "rec_sleep5", "rec_on",
              "rec_sleep2"}

\* Positions of the main thread inside recover_pts.
InRecovery == {"rec_kill_pts", "rec_kill_fts", "rec_delete", "rec_off",
               "rec_sleep5", "rec_on", "rec_sleep2"}

\* KeyboardInterrupt raised in the `try:` block outside the inner try of the
\* drain loop: `except KeyboardInterrupt: sys.exit(14)`.
InterruptTry ==
    /\ Running /\ interrupts < MaxInterrupts /\ sup_pc \in InTry
    /\ ProcessEnds("exited", <<14>>, interrupts + 1)

\* KeyboardInterrupt raised inside `try: exceptions += str(queue.get_nowait())`:
\* the inner `except BaseException` logs it and the drain loop goes on.  The
\* interrupt falls before get_nowait took the item (lost = FALSE) or after it
\* took it and before the item was added to `exceptions` (lost = TRUE).
InterruptDrain ==
    /\ Running /\ interrupts < MaxInterrupts /\ sup_pc = "drain" /\ queue # << >>
    /\ interrupts' = interrupts + 1
    /\ \E lost \in BOOLEAN : queue' = IF lost THEN Tail(queue) ELSE queue
    /\ UNCHANGED <<cfg_vars, srv_args, sup_vars, srv_vars, servers, was_timeout, wd_vars,
                   rec_log, events>>

\* KeyboardInterrupt raised inside the `except BaseException` clause: no
\* clause catches it any more, the interpreter ends the process.
InterruptHandler ==
    /\ Running /\ interrupts < MaxInterrupts /\ sup_pc \in InHandler
    /\ ProcessEnds("uncaught_kbd", <<1>>, interrupts + 1)

\* ----------------------------------------------------------------- time
\* Time passes: more than `timeout` has gone by since the engine of s last
\* stamped last_start_time.  Only the SuperGuard thread evaluates the
\* comparison, and only for the servers of its list.
Registered(s) == \E i \in 1..Len(servers) : servers[i] = s

Elapse(s) ==
    /\ Running /\ timeout # 0 /\ Registered(s) /\ has_pts(s) /\ ~stale[s]
    /\ events < MaxEvents
    /\ events' = events + 1
    /\ stale' = [stale EXCEPT ![s] = TRUE]
    /\ UNCHANGED <<cfg_vars, srv_args, sup_vars, queue, st, shut_req, servers,
                   was_timeout, wd_vars, rec_log, interrupts>>

\* ------------------------------------------------------------------ Next
Supervisor ==
    \/ SingleStart \/ MultiEnter \/ MultiStartOne \/ MultiWait
    \/ MultiTerm \/ DrainGet \/ DrainEnd \/ Decide \/ ClearServers \/ ClearFlag
    \/ RecKillPts \/ RecKillFts \/ RecDelete \/ RecPowerOff \/ RecSleep5
    \/ RecPowerOn \/ RecSleep2

Worker(s) ==
    \/ CreatePts(s) \/ CreateServer(s) \/ Fail(s) \/ Refresh(s)
    \/ request_recovery(s) \/ ServeExit(s)

Watchdog ==
    \/ WdCount \/ WdTermSpawn \/ WdTermPut \/ WdSetFlag \/ WdClear

Interrupt == InterruptTry \/ InterruptDrain \/ InterruptHandler

Next ==
    \/ Supervisor
    \/ \E s \in Servers : Worker(s)
    \/ Watchdog
    \/ Interrupt
    \/ \E s \in Servers : Elapse(s)

Spec == Init /\ [][Next]_vars

\* Threads are scheduled fairly: the main thread, the SuperGuard thread and
\* the statements of each Server.main run when they can.  Exceptions, client
\* calls, the passage of time and Ctrl-C are up to the environment.
FairSpec ==
    /\ Spec
    /\ WF_vars(Supervisor)
    /\ WF_vars(Watchdog)
    /\ \A s \in Servers : WF_vars(CreatePts(s) \/ CreateServer(s) \/ ServeExit(s))

\* ================================================================ properties

\* C1: Server.terminate is idempotent per worker: however many calls the
\* watchdog, the supervisor and the worker's own failure path make on one
\* Server, at most one failure cause of that Server is added to the queue
\* ('Server is down' entries are put by multi_main itself, not by terminate).
C1_AtMostOneCausePerWorker ==
    \A s \in Servers :
        Cardinality({i \in 1..Len(queue) :
                        queue[i].srv = s /\ queue[i].msg # MsgDown}) <= 1

\* C2: the watchdog goes on to terminate the fleet only in a state in which
\* the list of servers is non-empty and every server of the list is idle past
\* the timeout.
C2_FireOnlyWhenAllIdle ==
    [][(wd_pc = "count" /\ wd_pc' = "term")
         => /\ servers # << >>
            /\ \A i \in 1..Len(servers) : IsIdle(servers[i])]_vars

\* C3: from the completion of a fire (was_timeout set and the list cleared by
\* the watchdog) to the supervisor's next clear() the list of servers is
\* empty.
C3_RegistryEmptyAfterFire ==
    (was_timeout /\ wd_pc # "clear" /\ sup_pc # "clear_flag") => servers = << >>

\* C4: once the supervisor handles a failure, the only outcomes are recovery
\* followed by a fresh fleet (when --recovery or was_timeout is set) and the
\* exit with status 16 (otherwise): leaving aside Ctrl-C, the process ends
\* inside the handler only with status 16 and only when neither flag is set.
C4_OnlyRecoveryOrFatal ==
    [][(sup_pc \in InHandler /\ interrupts' = interrupts /\ ~Running')
         => (exit_code' = <<16>> /\ ~(recovery \/ was_timeout))]_vars

\* C5: the process exits with status 0 only if no termination of a worker was
\* requested during the run.
C5_ExitZeroOnlyWithoutTermination ==
    [][exit_code' = <<0>> => \A s \in Servers : ~shut_req[s]]_vars

\* C6: once Ctrl-C has been delivered the process has ended with status 14,
\* wherever the main thread was.
C6_InterruptExits14 ==
    interrupts > 0 => (sup_pc = "exited" /\ exit_code = <<14>>)

\* C7: with --recovery (no watchdog, no Ctrl-C) a failure never ends the
\* process: the supervisor recovers and starts a fresh fleet.
C7_RecoveryKeepsRunning ==
    (recovery /\ timeout = 0 /\ interrupts = 0) => Running

C9_RecoveryNeverRaises == sup_pc # "uncaught_exc"

\* The effects of a complete recover_pts call for the hub ports p, in order.
C10_Plan(p) ==
    <<<<"kill", "PTS.exe">>, <<"kill", "Fts.exe">>, <<"delete", "workspaces">>>>
    \o (IF p = << >> THEN << >>
        ELSE [i \in 1..Len(p) |-> <<"off", p[i]>>] \o <<<<"sleep", "5">>>>
             \o [i \in 1..Len(p) |-> <<"on", p[i]>>] \o <<<<"sleep", "2">>>>)

\* C10: recover_pts works in a fixed order: process termination, workspace
\* cleanup, then (only with hub ports) power off of every port, the 5 s
\* delay, power on of every port, the 2 s delay; at every moment its effects
\* are a prefix of that sequence, and it has returned only with all of them.
C10_FixedOrder ==
    /\ Len(rec_log) <= Len(C10_Plan(ykush))
    /\ rec_log = SubSeq(C10_Plan(ykush), 1, Len(rec_log))
    /\ (sup_pc = "top" /\ fleet > 0) => rec_log = C10_Plan(ykush)

\* A recover_pts call with two hub ports has returned.
C10_Witness ==
    /\ sup_pc = "top" /\ fleet > 0
    /\ Len(ykush) = 2
    /\ Len(rec_log) = 9

\* The Servers that fleet f created for port p.
C11_Workers(f, p) ==
    {s \in Servers : srv_args[s] = [fleet |-> f, srv_port |-> p]}

C12_OneRecoveryAtATime ==
    [][(sup_pc \in InRecovery)
         => (\/ ~Running'
             \/ (/\ fleet' = fleet
                 /\ srv_args' = srv_args
                 /\ sup_pc' \in InRecovery \cup {"top"}
                 /\ (\/ rec_log' = rec_log
                     \/ (/\ Len(rec_log') = Len(rec_log) + 1
                         /\ SubSeq(rec_log', 1, Len(rec_log)) = rec_log))))]_vars

\* recover_pts is in progress while a worker thread is serving and the
\* watchdog thread is in the middle of a fire.
C12_Witness ==
    /\ sup_pc = "rec_delete"
    /\ \E s \in Servers : st[s] = "serving"
    /\ wd_pc = "term_put"

\* C13: the watchdog fires exactly once for a fleet and not again until a new
\* fleet has been registered: while the first fleet is the only one that was
\* ever registered, a fire begins only if none has taken place yet.
C13_OneFirePerFleet ==
    [][(wd_pc = "count" /\ wd_pc' = "term" /\ fleet = 1) => ~was_timeout]_vars

\* C14: multi_main stays in its waiting loop as long as the queue is empty,
\* leaves it only with a non-empty queue, reports as 'Server is down' only
\* workers whose thread has ended, and, when a worker thread of the fleet has
\* ended (with or without a report of its own), eventually leaves the loop.
C14_LivenessPoll ==
    /\ [][(sup_pc = "m_wait" /\ Running')
            => (IF queue = << >> THEN sup_pc' = "m_wait"
                ELSE sup_pc' \in {"m_wait", "m_term"})]_vars
    /\ [](\A i \in 1..Len(queue) :
            queue[i].msg = MsgDown => ~is_alive(queue[i].srv))
    /\ ((sup_pc = "m_wait"
         /\ \E s \in Servers : srv_args[s].fleet = fleet /\ ~is_alive(s))
        ~> (sup_pc # "m_wait"))

\* multi_main is waiting, a worker thread has ended without a report and the
\* liveness loop has put 'Server is down' for it.
C14_Witness ==
    /\ sup_pc = "m_wait"
    /\ \E s \in Servers :
          /\ st[s] = "crashed_pts"
          /\ queue = <<[msg |-> MsgDown, srv |-> s]>>

\* C15: without --superguard (timeout 0) the watchdog thread is never
\* started: was_timeout stays False and no 'Superguard timeout' cause is ever
\* in the queue or among the drained causes; so without --recovery the
\* handler never enters the recovery branch, and (Ctrl-C aside) a handled
\* failure ends the process with status 16 and the process ends in no other
\* way.
C15_NoWatchdogNoRecovery ==
    /\ [](timeout = 0
            => /\ wd_pc = "off" /\ ~was_timeout
               /\ \A i \in 1..Len(queue) : queue[i].msg # MsgTimeout
               /\ \A i \in 1..Len(exceptions) : exceptions[i] # MsgTimeout)
    /\ []((timeout = 0 /\ ~recovery)
            => /\ sup_pc \notin {"clear_servers", "clear_flag"} \cup InRecovery
               /\ (~Running /\ interrupts = 0) => exit_code = <<16>>)
    /\ [][(timeout = 0 /\ ~recovery /\ sup_pc = "decide"
             /\ sup_pc' # "decide" /\ interrupts' = interrupts)
            => exit_code' = <<16>>]_vars

\* Without --superguard and without --recovery a failure has ended the
\* process with status 16.
C15_Witness ==
    timeout = 0 /\ ~recovery /\ interrupts = 0 /\ exit_code = <<16>>

\* C16: once the supervisor's clear() has returned, and as long as no new
\* fleet has been registered (the main thread is still inside recover_pts),
\* was_timeout is False and the watchdog's list is empty, also when clear()
\* ran while a fire of the watchdog was in progress.
C16_ClearedWhileRecovering ==
    sup_pc \in InRecovery => (~was_timeout /\ servers = << >>)

\* C17: a worker without a PTS object never counts as idle, so the watchdog
\* does not go on to terminate the fleet while a server of its list has not
\* created its PTS object yet.
C17_NoFireWhileUnstarted ==
    [][(wd_pc = "count" /\ wd_pc' = "term")
         => \A i \in 1..Len(servers) : has_pts(servers[i])]_vars

\* C18: a failure whose cause the watchdog pushed always ends in recovery,
\* with or without --recovery: when the handler decides (Ctrl-C aside) about
\* an exception that carries 'Superguard timeout', it takes the recovery
\* branch.
C18_WatchdogFailureRecovers ==
    [][(/\ sup_pc = "decide" /\ sup_pc' # "decide"
        /\ interrupts' = interrupts
        /\ \E i \in 1..Len(exceptions) : exceptions[i] = MsgTimeout)
         => sup_pc' = "clear_servers"]_vars

\* C19: when the main thread starts or runs a fleet after a recovery, the
\* queue holds no cause that stems from a Server of an earlier fleet: back at
\* the top of the loop the queue is empty, and while a fleet is started or
\* running every entry of the queue names a Server of that fleet.
C19_NoStaleCause ==
    /\ (sup_pc = "top" /\ fleet > 0) => queue = << >>
    /\ sup_pc \in {"single_main", "m_start", "m_wait"}
         => \A i \in 1..Len(queue) : srv_args[queue[i].srv].fleet = fleet

\* C20: when the main thread starts the next fleet after a recovery, no
\* worker of an earlier fleet is still running (and so still holds, or is
\* about to take, the endpoint of its port): back at the top of the loop no
\* worker is alive, and while a fleet is started or running every worker
\* that is alive belongs to it.
C20_NoPredecessorAlive ==
    \A s \in Servers :
        is_alive(s) =>
            /\ ~(sup_pc = "top" /\ fleet > 0)
            /\ sup_pc \in {"single_main", "m_start", "m_wait"}
                 => srv_args[s].fleet = fleet

====
